---- MODULE Spec2Model ----
(***************************************************************************)
(* A model of s2/polygon.go: the Polygon type, its constructors, the      *)
(* preorder hierarchy navigation (Parent, LastDescendant), the edge-chain  *)
(* index (Edge, Chain, ChainEdge, ChainPosition) and the lossless          *)
(* encoder.                                                                *)
(*                                                                         *)
(* Go slices are 0-based, TLA+ sequences 1-based: operators take and       *)
(* return Go indices and element k of a slice s is s[k + 1].               *)
(*                                                                         *)
(* Three specifications share the variables:                               *)
(*   Spec       the constructors (zero value, PolygonFromLoops,            *)
(*              FullPolygon) followed by Encode;                           *)
(*   SpecHier   Parent, LastDescendant and Encode applied to polygons     *)
(*              whose loop depths form a preorder nesting;                 *)
(*   SpecChain  ChainPosition and Edge applied to polygons of up to        *)
(*              MaxChainLoops loops, on both sides of                      *)
(*              maxLinearSearchLoops.                                      *)
(* PolygonFromLoops panics on more than one loop, so the polygons of       *)
(* SpecHier and SpecChain are those an in-package composite literal        *)
(* holds, with the totals the constructor's body (lines 98-118) computes.  *)
(***************************************************************************)
EXTENDS Integers, Sequences, FiniteSets, TLC

VARIABLES
  input,   \* the []*Loop handed to the constructor
  p,       \* the Polygon
  ctor,    \* which constructor made p: "none", "zero", "fromLoops", "full", "literal"
  pc,      \* "start", "built", "panicked", "encoded", "called"
  panic,   \* the panic construction ended in, or NoPanic
  w,       \* the fields written to the io.Writer, in order
  err,     \* the error Encode returned, or NoErr
  ret      \* the last accessor call and what it returned

vars == <<input, p, ctor, pc, panic, w, err, ret>>

---------------------------------------------------------------------------
\* Bounds of the model.

MaxInput == 2
MaxVerts == 3
MaxDepth == 2
MaxHierLoops == 4
MaxChainLoops == 13
MaxPattern == 2

\* Program constants.

maxLinearSearchLoops == 12
encodingVersion == 1

---------------------------------------------------------------------------
\* Loop, Rect and encoder: collaborators of polygon.go, known by their use.

FullLoopPoint == <<0, 0>>

\* Loop number id with n vertices; its points are <<id, 1>> .. <<id, n>>.
MakeLoop(id, n, d) ==
  [vertices |-> [j \in 1..n |-> <<id, j>>], depth |-> d, full |-> FALSE]

FullLoop == [vertices |-> <<FullLoopPoint>>, depth |-> 0, full |-> TRUE]

Vertices(l) == l.vertices

\* Loop.Vertex: the index wraps.
Vertex(l, i) == l.vertices[(i % Len(l.vertices)) + 1]

LoopIsFull(l) == l.full

ZeroRect == [rect |-> "zero", of |-> <<>>]
EmptyRect == [rect |-> "empty", of |-> <<>>]
FullRect == [rect |-> "full", of |-> <<>>]
LoopRectBound(l) == IF l.full THEN FullRect ELSE [rect |-> "loop", of |-> l.vertices]

NoErr == "nil"
ErrCompressed == "compressed encoding not yet implemented"

NewEncoder(out) == [w |-> out, err |-> NoErr]

\* encoder.writeX: nothing is written once an error is recorded.
Write(e, kind, val) ==
  IF e.err # NoErr THEN e
  ELSE [e EXCEPT !.w = Append(@, [kind |-> kind, val |-> val])]

LoopEncode(l, e) == Write(e, "loop", l)
RectEncode(r, e) == Write(e, "rect", r)

---------------------------------------------------------------------------
\* Polygon

NilSlice == [nil |-> TRUE, s |-> <<>>]
MakeSlice == [nil |-> FALSE, s |-> <<>>]

ZeroPolygon ==
  [loops |-> <<>>, hasHoles |-> FALSE, numVertices |-> 0, numEdges |-> 0,
   bound |-> ZeroRect, subregionBound |-> ZeroRect, cumulativeEdges |-> NilSlice]

\* for _, l := range loops: the table grows when present, numEdges always.
RECURSIVE EdgeTotals(_, _, _, _)
EdgeTotals(loops, i, cum, numEdges) ==
  IF i > Len(loops) THEN [cumulativeEdges |-> cum, numEdges |-> numEdges]
  ELSE EdgeTotals(loops, i + 1,
                  IF ~cum.nil THEN [cum EXCEPT !.s = Append(@, numEdges)] ELSE cum,
                  numEdges + Len(Vertices(loops[i])))

\* The constructor with the loop over the edge counts left out.
InitPolygonNoEdges(loops) ==
  [loops |-> loops, hasHoles |-> FALSE,
   numVertices |-> Len(Vertices(loops[1])),
   numEdges |-> 0,
   bound |-> LoopRectBound(loops[1]), subregionBound |-> EmptyRect,
   cumulativeEdges |-> NilSlice]

\* The constructor past its guard; loops is not empty.
InitPolygon(loops) ==
  LET t == EdgeTotals(loops, 1,
                      IF Len(loops) > maxLinearSearchLoops THEN MakeSlice ELSE NilSlice,
                      0)
  IN [loops |-> loops, hasHoles |-> FALSE,
      numVertices |-> Len(Vertices(loops[1])),
      numEdges |-> t.numEdges,
      bound |-> LoopRectBound(loops[1]), subregionBound |-> EmptyRect,
      cumulativeEdges |-> t.cumulativeEdges]

NoPanic == "none"
PanicMultiLoop == "PolygonFromLoops for multiple loops is not yet implemented"
PanicIndex == "index out of range"

PolygonFromLoops(loops) ==
  IF Len(loops) > 1 THEN [panic |-> PanicMultiLoop, p |-> ZeroPolygon]
  ELSE IF Len(loops) = 0 THEN [panic |-> PanicIndex, p |-> ZeroPolygon]
  ELSE [panic |-> NoPanic, p |-> InitPolygon(loops)]

FullPolygon ==
  [loops |-> <<FullLoop>>, hasHoles |-> FALSE,
   numVertices |-> Len(Vertices(FullLoop)), numEdges |-> 0,
   bound |-> FullRect, subregionBound |-> FullRect, cumulativeEdges |-> NilSlice]

IsEmpty(q) == Len(q.loops) = 0

IsFull(q) == Len(q.loops) = 1 /\ LoopIsFull(q.loops[1])

NumLoops(q) == Len(q.loops)

Loop(q, k) == q.loops[k + 1]

NumEdges(q) == q.numEdges

NumChainsOfLoops(q) == NumLoops(q)

NumChains(q) == IF IsFull(q) THEN 0 ELSE NumLoops(q)

loopIsHole(q, k) == Loop(q, k).depth % 2 # 0

loopSign(q, k) == IF loopIsHole(q, k) THEN -1 ELSE 1

---------------------------------------------------------------------------
\* Nested-loop hierarchy

\* for k--; k >= 0 && p.loops[k].depth <= depth; k-- {}
RECURSIVE ParentScan(_, _, _)
ParentScan(q, k, depth) ==
  IF k >= 0 /\ Loop(q, k).depth <= depth THEN ParentScan(q, k - 1, depth) ELSE k

Parent(q, k) ==
  LET depth == Loop(q, k).depth
  IN IF depth = 0 THEN [index |-> -1, ok |-> FALSE]
     ELSE [index |-> ParentScan(q, k - 1, depth), ok |-> TRUE]

RECURSIVE DescendantScanGE(_, _, _)
DescendantScanGE(q, k, depth) ==
  IF k < Len(q.loops) /\ Loop(q, k).depth >= depth
  THEN DescendantScanGE(q, k + 1, depth) ELSE k

\* for k++; k < len(p.loops) && p.loops[k].depth > depth; k++ {}
RECURSIVE DescendantScan(_, _, _)
DescendantScan(q, k, depth) ==
  IF k < Len(q.loops) /\ Loop(q, k).depth > depth
  THEN DescendantScan(q, k + 1, depth) ELSE k

LastDescendant(q, k) ==
  IF k < 0 THEN Len(q.loops) - 1
  ELSE DescendantScan(q, k + 1, Loop(q, k).depth) - 1

---------------------------------------------------------------------------
\* Edge-chain index

\* Edge, indexed search: for i = range p.cumulativeEdges { ... break }
RECURSIVE EdgeIndexedScan(_, _, _)
EdgeIndexedScan(cum, i, e) ==
  IF i + 1 >= Len(cum) \/ e < cum[i + 2] THEN <<i, e - cum[i + 1]>>
  ELSE EdgeIndexedScan(cum, i + 1, e)

\* Edge, linear search: for i = 0; e >= len(p.Loop(i).vertices); i++
RECURSIVE EdgeLinearScan(_, _, _)
EdgeLinearScan(q, i, e) ==
  IF e >= Len(Loop(q, i).vertices)
  THEN EdgeLinearScan(q, i + 1, e - Len(Loop(q, i).vertices))
  ELSE <<i, e>>

\* The loop and the offset Edge settles on before it reads the vertices.
EdgeLocate(q, e) ==
  IF Len(q.cumulativeEdges.s) > 0 THEN EdgeIndexedScan(q.cumulativeEdges.s, 0, e)
  ELSE EdgeLinearScan(q, 0, e)

Edge(q, e) ==
  LET at == EdgeLocate(q, e)
  IN [v0 |-> Vertex(Loop(q, at[1]), at[2]), v1 |-> Vertex(Loop(q, at[1]), at[2] + 1)]

RECURSIVE ChainStartInclusive(_, _, _)
ChainStartInclusive(q, j, chainID) ==
  IF j <= chainID /\ j < Len(q.loops)
  THEN Len(Loop(q, j).vertices) + ChainStartInclusive(q, j + 1, chainID) ELSE 0

ChainInclusive(q, chainID) ==
  IF ~q.cumulativeEdges.nil
  THEN [Start |-> q.cumulativeEdges.s[chainID + 1], Length |-> Len(Loop(q, chainID).vertices)]
  ELSE [Start |-> ChainStartInclusive(q, 0, chainID), Length |-> Len(Loop(q, chainID).vertices)]

\* for j := 0; j < chainID; j++ { e += len(p.Loop(j).vertices) }
RECURSIVE ChainStart(_, _, _)
ChainStart(q, j, chainID) ==
  IF j < chainID THEN Len(Loop(q, j).vertices) + ChainStart(q, j + 1, chainID) ELSE 0

Chain(q, chainID) ==
  IF ~q.cumulativeEdges.nil
  THEN [Start |-> q.cumulativeEdges.s[chainID + 1], Length |-> Len(Loop(q, chainID).vertices)]
  ELSE [Start |-> ChainStart(q, 0, chainID), Length |-> Len(Loop(q, chainID).vertices)]

ChainEdge(q, i, j) == [v0 |-> Vertex(Loop(q, i), j), v1 |-> Vertex(Loop(q, i), j + 1)]

RECURSIVE PosIndexedScanLE(_, _, _)
PosIndexedScanLE(cum, i, edgeID) ==
  IF i + 1 >= Len(cum) \/ edgeID <= cum[i + 2] THEN <<i, edgeID - cum[i + 1]>>
  ELSE PosIndexedScanLE(cum, i + 1, edgeID)

\* ChainPosition, indexed search: for i = range p.cumulativeEdges { ... break }
RECURSIVE PosIndexedScan(_, _, _)
PosIndexedScan(cum, i, edgeID) ==
  IF i + 1 >= Len(cum) \/ edgeID < cum[i + 2] THEN <<i, edgeID - cum[i + 1]>>
  ELSE PosIndexedScan(cum, i + 1, edgeID)

\* ChainPosition, linear search: for i = 0; edgeID >= len(p.Loop(i).vertices); i++
RECURSIVE PosLinearScan(_, _, _)
PosLinearScan(q, i, edgeID) ==
  IF edgeID >= Len(Loop(q, i).vertices)
  THEN PosLinearScan(q, i + 1, edgeID - Len(Loop(q, i).vertices))
  ELSE <<i, edgeID>>

ChainPosition(q, edgeID) ==
  LET at == IF Len(q.cumulativeEdges.s) > 0
            THEN PosIndexedScan(q.cumulativeEdges.s, 0, edgeID)
            ELSE PosLinearScan(q, 0, edgeID)
  IN [i |-> at[1], j |-> at[2]]

---------------------------------------------------------------------------
\* Encode

RECURSIVE EncodeLoops(_, _, _)
EncodeLoops(q, i, e) ==
  IF i > Len(q.loops) THEN e ELSE EncodeLoops(q, i + 1, LoopEncode(q.loops[i], e))

\* The bound written ahead of the loops.
encodeLosslessBoundFirst(q, e) ==
  LET e1 == Write(e, "int8", encodingVersion)
      e2 == Write(e1, "bool", TRUE)
      e3 == Write(e2, "bool", q.hasHoles)
      e4 == Write(e3, "uint32", Len(q.loops))
      e5 == RectEncode(q.bound, e4)
  IN EncodeLoops(q, 1, e5)

encodeLossless(q, e) ==
  LET e1 == Write(e, "int8", encodingVersion)
      e2 == Write(e1, "bool", TRUE)
      e3 == Write(e2, "bool", q.hasHoles)
      \* uint32(len(p.loops)): the value itself for every length below 2^32
      e4 == Write(e3, "uint32", Len(q.loops))
      e5 == EncodeLoops(q, 1, e4)
  IN RectEncode(q.bound, e5)

\* The lossless encoding whatever the vertex count.
encodeUnchecked(q, e) == encodeLossless(q, e)

encode(q, e) ==
  IF q.numVertices = 0 THEN [e EXCEPT !.err = ErrCompressed]
  ELSE encodeLossless(q, e)

Encode(q, out) == encode(q, NewEncoder(out))

---------------------------------------------------------------------------
\* The constructors and Encode as a state machine.

NoRet == [op |-> "none"]

Depths == 0..MaxDepth

\* A loop as the caller hands it over: the depth field is whatever it was left at.
InputLoop(id) ==
  {MakeLoop(id, n, d) : n \in 1..MaxVerts, d \in Depths} \cup {FullLoop}

RECURSIVE InputsOfLen(_)
InputsOfLen(n) ==
  IF n = 0 THEN {<<>>}
  ELSE {Append(s, l) : s \in InputsOfLen(n - 1), l \in InputLoop(n)}

Inputs == UNION {InputsOfLen(n) : n \in 0..MaxInput}

Init ==
  /\ input \in Inputs
  /\ p = ZeroPolygon
  /\ ctor = "none"
  /\ pc = "start"
  /\ panic = NoPanic
  /\ w = <<>>
  /\ err = NoErr
  /\ ret = NoRet

\* var p Polygon
ZeroValue ==
  /\ pc = "start"
  /\ p' = ZeroPolygon
  /\ ctor' = "zero"
  /\ pc' = "built"
  /\ UNCHANGED <<input, panic, w, err, ret>>

CallPolygonFromLoops ==
  /\ pc = "start"
  /\ LET r == PolygonFromLoops(input)
     IN /\ panic' = r.panic
        /\ p' = r.p
        /\ pc' = IF r.panic = NoPanic THEN "built" ELSE "panicked"
  /\ ctor' = "fromLoops"
  /\ UNCHANGED <<input, w, err, ret>>

CallFullPolygon ==
  /\ pc = "start"
  /\ p' = FullPolygon
  /\ ctor' = "full"
  /\ pc' = "built"
  /\ UNCHANGED <<input, panic, w, err, ret>>

CallEncode ==
  /\ pc = "built"
  /\ LET e == Encode(p, w)
     IN /\ w' = e.w
        /\ err' = e.err
  /\ pc' = "encoded"
  /\ UNCHANGED <<input, p, ctor, panic, ret>>

Next == ZeroValue \/ CallPolygonFromLoops \/ CallFullPolygon \/ CallEncode

Spec == Init /\ [][Next]_vars

---------------------------------------------------------------------------
\* Parent, LastDescendant and Encode on polygons of nested loops.

\* Depth sequences of a preorder traversal: the first loop at depth 0, every
\* next one at most one level below the loop before it.
RECURSIVE NestingsOfLen(_)
NestingsOfLen(n) ==
  IF n = 1 THEN {<<0>>}
  ELSE {Append(s, d) : s \in NestingsOfLen(n - 1), d \in 0..(n - 1)}

ValidNesting(ds) ==
  /\ ds[1] = 0
  /\ \A i \in 2..Len(ds) : ds[i] <= ds[i - 1] + 1

Nestings ==
  {ds \in UNION {NestingsOfLen(n) : n \in 1..MaxHierLoops} : ValidNesting(ds)}

NestedLoops(ds) == [i \in 1..Len(ds) |-> MakeLoop(i, MaxVerts, ds[i])]

InitHier ==
  /\ \E ds \in Nestings : input = NestedLoops(ds)
  \* hasHoles as the field is documented: set when some loop is a hole
  /\ p = [InitPolygon(input) EXCEPT
            !.hasHoles = \E i \in 1..Len(input) : input[i].depth % 2 = 1]
  /\ ctor = "literal"
  /\ pc = "built"
  /\ panic = NoPanic
  /\ w = <<>>
  /\ err = NoErr
  /\ ret = NoRet

CallParent ==
  /\ pc = "built"
  /\ \E k \in 0..(NumLoops(p) - 1) :
       LET r == Parent(p, k)
       IN ret' = [op |-> "Parent", k |-> k, index |-> r.index, ok |-> r.ok]
  /\ pc' = "called"
  /\ UNCHANGED <<input, p, ctor, panic, w, err>>

CallLastDescendant ==
  /\ pc = "built"
  /\ \E k \in -2..(NumLoops(p) - 1) :
       ret' = [op |-> "LastDescendant", k |-> k, index |-> LastDescendant(p, k)]
  /\ pc' = "called"
  /\ UNCHANGED <<input, p, ctor, panic, w, err>>

NextHier == CallParent \/ CallLastDescendant \/ CallEncode

SpecHier == InitHier /\ [][NextHier]_vars

---------------------------------------------------------------------------
\* ChainPosition and Edge on polygons of few and of many loops.

RECURSIVE PatternsOfLen(_)
PatternsOfLen(n) ==
  IF n = 0 THEN {<<>>}
  ELSE {Append(s, c) : s \in PatternsOfLen(n - 1), c \in 1..MaxVerts}

\* The vertex counts of the loops repeat a pattern.
Patterns == UNION {PatternsOfLen(n) : n \in 1..MaxPattern}

ChainLoops(pat, n) ==
  [i \in 1..n |-> MakeLoop(i, pat[((i - 1) % Len(pat)) + 1], 0)]

InitChain ==
  /\ \E pat \in Patterns, n \in 1..MaxChainLoops : input = ChainLoops(pat, n)
  /\ p = InitPolygon(input)
  /\ ctor = "literal"
  /\ pc = "built"
  /\ panic = NoPanic
  /\ w = <<>>
  /\ err = NoErr
  /\ ret = NoRet

CallChainPosition ==
  /\ pc = "built"
  /\ \E e \in 0..(NumEdges(p) - 1) :
       LET r == ChainPosition(p, e)
       IN ret' = [op |-> "ChainPosition", e |-> e, i |-> r.i, j |-> r.j]
  /\ pc' = "called"
  /\ UNCHANGED <<input, p, ctor, panic, w, err>>

CallEdge ==
  /\ pc = "built"
  /\ \E e \in 0..(NumEdges(p) - 1) :
       LET r == Edge(p, e)
       IN ret' = [op |-> "Edge", e |-> e, v0 |-> r.v0, v1 |-> r.v1]
  /\ pc' = "called"
  /\ UNCHANGED <<input, p, ctor, panic, w, err>>

NextChain == CallChainPosition \/ CallEdge

SpecChain == InitChain /\ [][NextChain]_vars

---------------------------------------------------------------------------
\* Properties

Constructed == pc \in {"built", "encoded"}

RECURSIVE SumVertices(_, _)
SumVertices(loops, n) ==
  IF n = 0 THEN 0 ELSE Len(loops[n].vertices) + SumVertices(loops, n - 1)

Depth(k) == Loop(p, k).depth

\* The nearest loop before m that is shallower than m, -1 when there is none.
StructuralParent(m) ==
  LET above == {x \in 0..(m - 1) : Depth(x) < Depth(m)}
  IN IF above = {} THEN -1 ELSE CHOOSE x \in above : \A y \in above : y <= x

RECURSIVE IsAncestor(_, _)
IsAncestor(a, m) ==
  LET up == StructuralParent(m)
  IN up # -1 /\ (up = a \/ IsAncestor(a, up))

\* C1: on a polygon whose depths form a preorder nesting, Parent(k) of a loop
\* below the top level returns ok and the index p < k of the nearest loop
\* before k that is shallower, whose depth is depth(k) - 1; Parent(k) of a
\* top-level loop returns ok = false.
C1_ParentIsStructuralParent ==
  ret.op = "Parent" =>
    LET k == ret.k
    IN /\ Depth(k) = 0 => ~ret.ok
       /\ Depth(k) > 0 =>
            /\ ret.ok
            /\ ret.index >= 0
            /\ ret.index < k
            /\ Depth(ret.index) = Depth(k) - 1
            /\ ret.index = StructuralParent(k)

\* C2: on a polygon whose depths form a preorder nesting, LastDescendant(k)
\* is the greatest j >= k such that every loop of k+1..j is deeper than loop
\* k, the block k+1..j is the subtree of k, and j = k for a leaf; for a
\* negative k it is NumLoops() - 1.
C2_LastDescendantSpansSubtree ==
  ret.op = "LastDescendant" =>
    LET k == ret.k
        j == ret.index
        n == NumLoops(p)
    IN IF k < 0 THEN j = n - 1
       ELSE /\ k <= j
            /\ j <= n - 1
            /\ \A m \in (k + 1)..j : Depth(m) > Depth(k)
            /\ j < n - 1 => Depth(j + 1) <= Depth(k)
            /\ {m \in 0..(n - 1) : IsAncestor(k, m)} = (k + 1)..j
            /\ (k = n - 1 \/ Depth(k + 1) <= Depth(k)) => j = k

C2_Witness ==
  /\ ret.op = "LastDescendant"
  /\ ret.k >= 0
  /\ ret.index > ret.k + 1
  /\ ret.index < NumLoops(p) - 1

\* The loop holding global edge e and the offset of e in it, by the sums of
\* the vertex counts.
PositionsOf(e) ==
  {at \in (0..(NumLoops(p) - 1)) \X (0..e) :
     /\ SumVertices(p.loops, at[1]) <= e
     /\ e < SumVertices(p.loops, at[1] + 1)
     /\ at[2] = e - SumVertices(p.loops, at[1])}

PrefixSums == [i \in 1..NumLoops(p) |-> SumVertices(p.loops, i - 1)]

\* C3: for every sequence of non-empty loops, of at most 12 loops and of more,
\* and every global edge e, the search of the cumulativeEdges table (the
\* prefix sums of the edge counts) and the linear scan of the loops give the
\* same (loop, offset): the one loop i with sum(loops < i) <= e <
\* sum(loops <= i), and e - sum(loops < i); so does the search inside Edge.
C3_IndexedAndLinearAgree ==
  ret.op \in {"ChainPosition", "Edge"} =>
    LET e == ret.e
        table == EdgeTotals(p.loops, 1, MakeSlice, 0).cumulativeEdges.s
    IN /\ table = PrefixSums
       /\ p.cumulativeEdges.nil <=> NumLoops(p) <= maxLinearSearchLoops
       /\ ~p.cumulativeEdges.nil => p.cumulativeEdges.s = table
       /\ Cardinality(PositionsOf(e)) = 1
       /\ PosIndexedScan(table, 0, e) = PosLinearScan(p, 0, e)
       /\ PosLinearScan(p, 0, e) \in PositionsOf(e)
       /\ EdgeIndexedScan(table, 0, e) = EdgeLinearScan(p, 0, e)
       /\ EdgeLinearScan(p, 0, e) \in PositionsOf(e)
       /\ EdgeLocate(p, e) \in PositionsOf(e)
       /\ ret.op = "ChainPosition" => <<ret.i, ret.j>> \in PositionsOf(e)

C3_Witness ==
  /\ ret.op = "ChainPosition"
  /\ NumLoops(p) > maxLinearSearchLoops
  /\ ~p.cumulativeEdges.nil
  /\ ret.i = maxLinearSearchLoops
  /\ ret.j > 0

\* C4: for every global edge e of a polygon, (i, j) = ChainPosition(e) has
\* 0 <= i < NumLoops(), 0 <= j < Chain(i).Length and Chain(i).Start + j = e,
\* and Edge(e) is the vertex pair ChainEdge(i, j), whose second vertex is
\* vertex (j + 1) mod length of loop i.
C4_EdgeRoundTrip ==
  ret.op = "ChainPosition" =>
    LET e == ret.e
        i == ret.i
        j == ret.j
    IN /\ 0 <= e /\ e < NumEdges(p)
       /\ 0 <= i /\ i < NumLoops(p)
       /\ 0 <= j /\ j < Chain(p, i).Length
       /\ Chain(p, i).Length = Len(Loop(p, i).vertices)
       /\ Chain(p, i).Start + j = e
       /\ Edge(p, e) = ChainEdge(p, i, j)
       /\ ChainEdge(p, i, j).v0 = Loop(p, i).vertices[j + 1]
       /\ ChainEdge(p, i, j).v1 =
            Loop(p, i).vertices[((j + 1) % Len(Loop(p, i).vertices)) + 1]
       \* the single triangle
       /\ (NumLoops(p) = 1 /\ Len(Loop(p, 0).vertices) = 3) =>
            /\ NumEdges(p) = 3
            /\ Chain(p, 0) = [Start |-> 0, Length |-> 3]
            /\ Edge(p, 1) = ChainEdge(p, 0, 1)

\* The last edge of a loop that is not the first: its second vertex wraps.
C4_Witness ==
  /\ ret.op = "ChainPosition"
  /\ ret.i > 0
  /\ ret.j > 0
  /\ ret.j = Len(Loop(p, ret.i).vertices) - 1
  /\ Edge(p, ret.e).v1 = Loop(p, ret.i).vertices[1]

\* C5: PolygonFromLoops aborts exactly when given more than one loop; given
\* none or one it returns a polygon whose loops are the input, the empty
\* polygon for no loops.
C5_AbortsOnlyOnSeveralLoops ==
  ctor = "fromLoops" =>
    /\ Len(input) > 1 => pc = "panicked"
    /\ Len(input) <= 1 =>
         /\ pc # "panicked"
         /\ panic = NoPanic
         /\ p.loops = input
         /\ Len(input) = 0 => (NumLoops(p) = 0 /\ IsEmpty(p))

\* C6: Encode of a polygon without vertices (the empty polygon) returns an
\* error, writes nothing and leaves the polygon as it was; Encode of a
\* polygon with a vertex returns no error, the writer never failing.
C6_EncodeOfEmptyFails ==
  [][(pc = "built" /\ pc' = "encoded") =>
       /\ (IsEmpty(p) \/ p.numVertices = 0) => (err' # NoErr /\ w' = w /\ p' = p)
       /\ p.numVertices > 0 => (err' = NoErr /\ p' = p)]_vars

C6_Witness ==
  /\ pc = "encoded"
  /\ ctor = "zero"
  /\ IsEmpty(p)
  /\ err = ErrCompressed
  /\ w = <<>>

Field(kind, val) == [kind |-> kind, val |-> val]

\* C7: the fields Encode writes for a polygon with a vertex are, in order and
\* with nothing else: the version, the legacy flag true, hasHoles, the loop
\* count, one block per loop in loop order, the bound.
C7_EncodedLayout ==
  (pc = "encoded" /\ p.numVertices > 0) =>
    LET n == NumLoops(p)
    IN /\ Len(w) = n + 5
       /\ w[1] = Field("int8", encodingVersion)
       /\ w[2] = Field("bool", TRUE)
       /\ w[3] = Field("bool", p.hasHoles)
       /\ w[4] = Field("uint32", n)
       /\ \A k \in 0..(n - 1) : w[5 + k] = Field("loop", Loop(p, k))
       /\ w[n + 5] = Field("rect", p.bound)

C7_Witness ==
  /\ pc = "encoded"
  /\ p.numVertices > 0
  /\ NumLoops(p) > 2
  /\ p.hasHoles
  /\ err = NoErr
  /\ Len(w) = NumLoops(p) + 5

\* C8: the empty polygon has no loops, is empty, is not full and has no
\* chains; FullPolygon() has one loop, a full one, is full, is not empty and
\* has no chains; a polygon that is neither has as many chains as loops; no
\* polygon is both empty and full.
C8_Sentinels ==
  Constructed =>
    /\ ~(IsEmpty(p) /\ IsFull(p))
    /\ ctor = "zero" =>
         (NumLoops(p) = 0 /\ IsEmpty(p) /\ ~IsFull(p) /\ NumChains(p) = 0)
    /\ ctor = "full" =>
         /\ NumLoops(p) = 1
         /\ IsFull(p)
         /\ ~IsEmpty(p)
         /\ NumChains(p) = 0
         /\ LoopIsFull(Loop(p, 0))
    /\ IsEmpty(p) <=> NumLoops(p) = 0
    /\ (~IsEmpty(p) /\ ~IsFull(p)) => NumChains(p) = NumLoops(p)

C8_Witness ==
  /\ pc = "built"
  /\ ctor = "full"
  /\ IsFull(p)
  /\ NumChains(p) = 0

\* C9 as stated: after any constructor numVertices and numEdges are both the
\* sum of the loops' vertex counts, FullPolygon() included.
C9_TotalsAgreeEverywhere ==
  Constructed =>
    /\ p.numVertices = SumVertices(p.loops, Len(p.loops))
    /\ NumEdges(p) = SumVertices(p.loops, Len(p.loops))
    /\ NumEdges(p) = p.numVertices

\* C9: after the zero value and after PolygonFromLoops numVertices and
\* numEdges are both the sum of the loops' vertex counts; after FullPolygon()
\* numVertices is the full loop's vertex count and numEdges is 0.
C9_TotalsAgreeButForFull ==
  Constructed =>
    /\ ctor \in {"zero", "fromLoops"} =>
         /\ p.numVertices = SumVertices(p.loops, Len(p.loops))
         /\ NumEdges(p) = SumVertices(p.loops, Len(p.loops))
         /\ NumEdges(p) = p.numVertices
    /\ ctor = "full" =>
         /\ p.numVertices = Len(Vertices(FullLoop))
         /\ NumEdges(p) = 0

C9_Witness ==
  /\ pc = "built"
  /\ ctor = "fromLoops"
  /\ p.numVertices = MaxVerts
  /\ NumEdges(p) = MaxVerts

\* C10: loop 0 of a polygon made from one loop is a top-level shell whatever
\* depth the loop came with: not a hole, sign +1, hasHoles false; hasHoles
\* is true exactly when some loop has odd depth.
C10_SingleLoopIsShell ==
  (ctor = "fromLoops" /\ Constructed) =>
    /\ ~loopIsHole(p, 0)
    /\ loopSign(p, 0) = 1
    /\ ~p.hasHoles
    /\ p.hasHoles <=> \E k \in 0..(NumLoops(p) - 1) : Depth(k) % 2 = 1

====
